---------------------------- MODULE Spec2Model ----------------------------
(***************************************************************************)
(* Funding-rate collector (backend/app.py): the file lock and status      *)
(* coordinator, the two ingestion jobs and the observation store.         *)
(*                                                                         *)
(* A process is one invocation of a collection entry point (the cron      *)
(* scripts backend/fetch_data.py and backend/fetch_hyperliquid_data.py,   *)
(* or the import of backend/app.py by a web worker).  Processes share the *)
(* instance directory (<job>.lock, status.json) and the database.         *)
(* Every access to a shared file or to the database is one step; time is  *)
(* counted in minutes and advances between steps.                         *)
(* File-system and logging failures other than "file exists" and "file    *)
(* not found" are not modelled.                                            *)
(***************************************************************************)
EXTENDS Integers, Sequences, FiniteSets, TLC

\* ----------------------------------------------------------------- bounds
\* The clock runs from 0 to MaxTime minutes in steps of TickMinutes.
MaxTime == 60
TickMinutes == 30
\* Number of invocations of a collection entry point in one behaviour.
MaxRuns == 2
\* Longest list of items in a Venue-A response.
MaxItems == 2
\* Number of invocations in a behaviour of SpecIngest.
IngestRuns == 2

\* ------------------------------------------------------ program constants
\* age > timedelta(minutes=30)
StaleMinutes == 30

Procs == {"p1", "p2"}
Jobs == {"lighter", "hyperliquid"}

\* Python's None, also what dict.get returns for a missing key.
None == "<none>"
\* No file at a path.  A file at a path is a record with other fields.
NoFile == [exists |-> FALSE]
NoCall == [entry |-> NoFile, at |-> 0, solo |-> TRUE, rivals |-> {}]
NoResponse == [endpoint |-> None]

VARIABLES
    now,         \* datetime.utcnow(), minutes
    lockFile,    \* job -> NoFile or [ino, mtime, content]: INSTANCE_DIR/<job>.lock
    statusFile,  \* NoFile or the record last dumped to INSTANCE_DIR/status.json
    pc,          \* process -> position in the entry point
    job,         \* process -> job name of the entry point it runs
    acquired,    \* process -> "True" / "False" returned by _acquire_lock (None before)
    content,     \* process -> started= timestamp read from the lock file
    items,       \* process -> the items of the fetched response
    exc,         \* process -> the exception caught by the entry point (None if none)
    store,       \* the funding_rate table: sequence of rows in insertion order
    nruns,       \* invocations so far
    rid,         \* process -> number of its invocation (history)
    wrote,       \* process -> <<record>> its run dumped last, <<>> if none (history)
    lastWritten, \* job -> status value that job dumped last, None if none (history)
    call,        \* process -> what its current _acquire_lock call has met (history)
    response     \* the HTTP response in flight to the client, NoResponse if none

vars == <<now, lockFile, statusFile, pc, job, acquired, content, items, exc,
          store, nruns, rid, wrote, lastWritten, call, response>>

\* Grouped for UNCHANGED.
lockLocals == <<acquired, content>>
runLocals == <<items, exc>>
history == <<rid, wrote, lastWritten>>

\* ------------------------------------------------------------- lock file
\* _lock_path(job): one marker per job name.
LockPath(p) == job[p]

\* os.open(path, O_CREAT | O_EXCL | O_WRONLY): the new file is empty; ino
\* names the open file description the creator writes through, mtime is the
\* time of the last change of the file.
NewLockFile(p) == [ino |-> p, mtime |-> now, content |-> <<>>]

\* f.write(f"pid=... started={datetime.utcnow().isoformat()}Z"): the write
\* goes to the file the descriptor refers to, which is the file at the path
\* only as long as nobody removed it.
WrittenLockFile(f, p) ==
    IF f # NoFile /\ f.ino = p
    THEN [f EXCEPT !.content = <<now>>, !.mtime = now]
    ELSE f

\* re.search(r'started=([\d\-T:\.Z]+)', content) and fromisoformat: the
\* start time <<t>>, or <<>> when the file holds no started= field (match
\* is None).
ParseStarted(f) == f.content

\* A variant of IsStale for comparison: the threshold itself counts as stale.
IsStaleAtThreshold(started) == now - started[1] >= StaleMinutes

\* age > timedelta(minutes=30)
IsStale(started) == now - started[1] > StaleMinutes


\* The instance directory outlives processes: at the start there is no lock
\* file, or the one a process killed earlier (Crash) has left, empty or
\* written.
InitialLockFiles ==
    {NoFile,
     [ino |-> None, mtime |-> 0, content |-> <<>>],
     [ino |-> None, mtime |-> 0, content |-> <<0>>]}

Init ==
    /\ now = 0
    /\ \E f \in InitialLockFiles : lockFile = [j \in Jobs |-> f]
    /\ statusFile = NoFile
    /\ items = [p \in Procs |-> <<>>]
    /\ exc = [p \in Procs |-> None]
    /\ store = <<>>
    /\ rid = [p \in Procs |-> 0]
    /\ wrote = [p \in Procs |-> <<>>]
    /\ lastWritten = [j \in Jobs |-> None]
    /\ pc = [p \in Procs |-> "idle"]
    /\ job = [p \in Procs |-> None]
    /\ acquired = [p \in Procs |-> None]
    /\ content = [p \in Procs |-> <<>>]
    /\ nruns = 0
    /\ call = [p \in Procs |-> NoCall]
    /\ response = NoResponse

\* -------------------------------------------------------- _acquire_lock
InAcquire(q) == pc[q] \in {"acq_create", "acq_write", "acq_read", "acq_age", "acq_remove"}

\* History: process p changes the lock file of its job, so no other call in
\* progress on that job runs alone any more.
Disturb(p) ==
    [q \in Procs |->
        IF q # p /\ InAcquire(q) /\ job[q] = job[p]
        THEN [call[q] EXCEPT !.solo = FALSE] ELSE call[q]]

\* return True / return False from _acquire_lock, back in the entry point:
\* "if not _acquire_lock(job): return".
AcquireReturn(p, result) ==
    /\ acquired' = [acquired EXCEPT ![p] = result]
    /\ content' = [content EXCEPT ![p] = <<>>]
    /\ pc' = [pc EXCEPT ![p] = IF result = "True" THEN "status_running" ELSE "done"]

\* Entry into fetch_and_store_data / fetch_and_store_hyperliquid_data.
Invoke(p, j, runs, active) ==
    /\ pc[p] = "idle"
    /\ nruns < runs
    /\ Cardinality({q \in Procs : pc[q] # "idle"}) < active
    /\ nruns' = nruns + 1
    /\ job' = [job EXCEPT ![p] = j]
    /\ pc' = [pc EXCEPT ![p] = "acq_create"]
    /\ call' = [q \in Procs |->
            IF q = p
            THEN [entry |-> lockFile[j], at |-> now, solo |-> TRUE,
                  rivals |-> {r \in Procs \ {p} : InAcquire(r) /\ job[r] = j}]
            ELSE IF InAcquire(q) /\ job[q] = j
                 THEN [call[q] EXCEPT !.rivals = @ \cup {p}]
                 ELSE call[q]]
    /\ rid' = [rid EXCEPT ![p] = nruns + 1]
    /\ UNCHANGED <<now, lockFile, statusFile, lockLocals, runLocals, store, wrote, lastWritten, response>>

\* os.open(path, os.O_CREAT | os.O_EXCL | os.O_WRONLY)
AcquireCreate(p) ==
    /\ pc[p] = "acq_create"
    /\ IF lockFile[LockPath(p)] = NoFile
       THEN /\ lockFile' = [lockFile EXCEPT ![LockPath(p)] = NewLockFile(p)]
            /\ pc' = [pc EXCEPT ![p] = "acq_write"]
            /\ call' = Disturb(p)
       ELSE \* FileExistsError
            /\ pc' = [pc EXCEPT ![p] = "acq_read"]
            /\ UNCHANGED <<lockFile, call>>
    /\ UNCHANGED <<now, statusFile, job, lockLocals, runLocals, store, nruns, history, response>>

\* f.write(...) through the descriptor, then return True
AcquireWrite(p) ==
    /\ pc[p] = "acq_write"
    /\ lockFile' = [lockFile EXCEPT
            ![LockPath(p)] = WrittenLockFile(lockFile[LockPath(p)], p)]
    /\ call' = Disturb(p)
    /\ AcquireReturn(p, "True")
    /\ UNCHANGED <<now, statusFile, job, runLocals, store, nruns, history, response>>

\* with open(path, 'r') as f: content = f.read(); re.search(...)
AcquireRead(p) ==
    /\ pc[p] = "acq_read"
    /\ IF lockFile[LockPath(p)] = NoFile
       THEN \* FileNotFoundError, caught by "except Exception": return False
            AcquireReturn(p, "False")
       ELSE IF ParseStarted(lockFile[LockPath(p)]) = <<>>
       THEN \* no match: falls through to return False
            AcquireReturn(p, "False")
       ELSE /\ content' = [content EXCEPT ![p] = ParseStarted(lockFile[LockPath(p)])]
            /\ pc' = [pc EXCEPT ![p] = "acq_age"]
            /\ UNCHANGED acquired
    /\ UNCHANGED <<now, lockFile, statusFile, job, runLocals, store, nruns, history, call, response>>

\* A variant of AcquireAge for comparison: a lock that is not stale is
\* removed before False is returned.
AcquireAgeBreaksLock(p) ==
    /\ pc[p] = "acq_age"
    /\ IF IsStale(content[p])
       THEN /\ pc' = [pc EXCEPT ![p] = "acq_remove"]
            /\ UNCHANGED <<lockLocals, lockFile>>
       ELSE /\ AcquireReturn(p, "False")
            /\ lockFile' = [lockFile EXCEPT ![LockPath(p)] = NoFile]
    /\ UNCHANGED <<now, statusFile, job, runLocals, store, nruns, history, call, response>>

\* age = datetime.utcnow() - started_at; if age > timedelta(minutes=30)
AcquireAge(p) ==
    /\ pc[p] = "acq_age"
    /\ IF IsStale(content[p])
       THEN /\ pc' = [pc EXCEPT ![p] = "acq_remove"]
            /\ UNCHANGED lockLocals
       ELSE AcquireReturn(p, "False")
    /\ UNCHANGED <<now, lockFile, statusFile, job, runLocals, store, nruns, history, call, response>>

\* os.remove(path); return _acquire_lock(job)
AcquireRemove(p) ==
    /\ pc[p] = "acq_remove"
    /\ IF lockFile[LockPath(p)] = NoFile
       THEN \* FileNotFoundError, caught: return False
            /\ AcquireReturn(p, "False")
            /\ UNCHANGED <<lockFile, call>>
       ELSE \* the recursive call starts over
            /\ lockFile' = [lockFile EXCEPT ![LockPath(p)] = NoFile]
            /\ pc' = [pc EXCEPT ![p] = "acq_create"]
            /\ content' = [content EXCEPT ![p] = <<>>]
            /\ call' = Disturb(p)
            /\ UNCHANGED acquired
    /\ UNCHANGED <<now, statusFile, job, runLocals, store, nruns, history, response>>

\* --------------------------------------------------------- _release_lock
\* A variant of Release for comparison: the file is left in place.
ReleaseKeepsFile(p) ==
    /\ pc[p] = "release"
    /\ pc' = [pc EXCEPT ![p] = "done"]
    /\ UNCHANGED <<now, lockFile, statusFile, job, lockLocals, runLocals, store, nruns, history, call, response>>

\* if os.path.exists(path): os.remove(path)
Release(p) ==
    /\ pc[p] = "release"
    /\ lockFile' = [lockFile EXCEPT ![LockPath(p)] = NoFile]
    /\ call' = Disturb(p)
    /\ pc' = [pc EXCEPT ![p] = "done"]
    /\ UNCHANGED <<now, statusFile, job, lockLocals, runLocals, store, nruns, history, response>>

\* ------------------------------------------------------------- values
\* JSON / Python values that reach float().  A float is finite with value
\* n (in units of 0.0001), or one of nan, inf, -inf.
Str(t) == [t |-> "str", s |-> t]
Float(cls, n) == [t |-> "float", cls |-> cls, n |-> n]
Finite(n) == Float("finite", n)
NaN == Float("nan", 0)
PosInf == Float("inf", 0)
NegInf == Float("-inf", 0)
PyNone == [t |-> "NoneType"]
\* The key is not in the mapping.
Missing == [t |-> "missing"]

\* A variant of IsFinite for comparison: only nan is refused (rate == rate).
IsNotNaN(x) == x.cls # "nan"

\* math.isfinite(rate)
IsFinite(x) == x.cls = "finite"

\* float(rate_str): the float, or the exception it raises.
PyFloat(raw) ==
    CASE raw.t = "float" -> [exc |-> None, val |-> raw]
      [] raw.t = "NoneType" -> [exc |-> "TypeError", val |-> NaN]
      [] raw.t = "str" ->
            CASE raw.s = "0" -> [exc |-> None, val |-> Finite(0)]
              [] raw.s = "0.0001" -> [exc |-> None, val |-> Finite(1)]
              [] raw.s = "-0.0002" -> [exc |-> None, val |-> Finite(-2)]
              [] raw.s = "NaN" -> [exc |-> None, val |-> NaN]
              [] raw.s = "Infinity" -> [exc |-> None, val |-> PosInf]
              [] raw.s = "-Infinity" -> [exc |-> None, val |-> NegInf]
              [] OTHER -> [exc |-> "ValueError", val |-> NaN]

\* item.get(key, default) on a mapping.
Get(v, default) == IF v = Missing THEN default ELSE v

\* datetime.isoformat(): the text of a moment, with no zone designator.
IsoFormat(t) == [text |-> t, suffix |-> ""]
\* ... + 'Z'
PlusZ(iso) == [iso EXCEPT !.suffix = @ \o "Z"]

\* ------------------------------------------------------ FundingRate rows
\* FundingRate(exchange=..., symbol=..., rate=...); the timestamp column
\* takes its default, datetime.utcnow, when the row is inserted.  run is the
\* invocation that inserted the row (history).
Row(exchange, symbol, rate, run) ==
    [exchange |-> exchange, symbol |-> symbol, rate |-> rate,
     timestamp |-> now, run |-> run]

\* symbol = db.Column(db.String(50), nullable=False)
ViolatesNotNull(row) == row.symbol = None

\* db.session.commit(): one transaction inserts every pending row, or an
\* IntegrityError rolls all of them back.
CommitRaises(session) == \E i \in 1..Len(session) : ViolatesNotNull(session[i])

\* ------------------------------------------------- fetch_and_store_data
\* items = data.get('funding_rates', []) if isinstance(data, dict) else data
ParseItems(data) ==
    IF data.isdict
    THEN IF data.haskey THEN data.list ELSE <<>>
    ELSE data.list

\* The body of "for item in items" for one item: the exception that leaves
\* the loop, or the session with the item's row added or not.
LighterItem(item, session, run) ==
    IF item.kind # "dict"
    THEN \* item.get: AttributeError, not caught inside the loop
         [exc |-> "AttributeError", session |-> session]
    ELSE LET symbol == item.symbol
             rate_str == Get(item.rate, Str("0"))
             f == PyFloat(rate_str)
         IN  IF f.exc # None
             THEN [exc |-> None, session |-> session]
             ELSE IF ~IsFinite(f.val)
             THEN [exc |-> None, session |-> session]
             ELSE [exc |-> None,
                   session |-> Append(session, Row("lighter", symbol, f.val, run))]

RECURSIVE LighterLoop(_, _, _)
LighterLoop(its, session, run) ==
    IF its = <<>>
    THEN [exc |-> None, session |-> session]
    ELSE LET r == LighterItem(Head(its), session, run)
         IN  IF r.exc # None THEN r ELSE LighterLoop(Tail(its), r.session, run)

\* "stored": len(items)
LighterStored(its, session) == Len(its)

\* ------------------------------ HyenaClient.fetch_all_funding_rates
\* self.coins, in the order of the meta() universe.
Coins == <<"BTC", "ETH">>

\* apr = avg_rate * 24 * 365
HoursPerDay == 24
DaysPerYear == 365
Apr(avg) == IF IsFinite(avg) THEN Finite(avg.n * HoursPerDay * DaysPerYear) ELSE avg

\* a < b on floats: every comparison with nan is False.
PyLess(a, b) ==
    CASE a.cls = "nan" \/ b.cls = "nan" -> FALSE
      [] a.cls = "-inf" -> b.cls # "-inf"
      [] a.cls = "inf" -> FALSE
      [] OTHER -> \* a is finite
            CASE b.cls = "inf" -> TRUE
              [] b.cls = "-inf" -> FALSE
              [] OTHER -> a.n < b.n

RECURSIVE Reverse(_)
Reverse(seq) == IF seq = <<>> THEN <<>> ELSE Append(Reverse(Tail(seq)), Head(seq))

\* One insertion of the stable sort behind sorted(..., key=average_3day_rate).
RECURSIVE InsertByRate(_, _)
InsertByRate(x, seq) ==
    IF seq = <<>>
    THEN <<x>>
    ELSE LET last == seq[Len(seq)]
             front == SubSeq(seq, 1, Len(seq) - 1)
         IN  IF PyLess(x.average_3day_rate, last.average_3day_rate)
             THEN Append(InsertByRate(x, front), last)
             ELSE Append(seq, x)

RECURSIVE SortInto(_, _)
SortInto(done, rest) ==
    IF rest = <<>> THEN done ELSE SortInto(InsertByRate(Head(rest), done), Tail(rest))

\* sorted(processed, key=lambda x: x["average_3day_rate"])
SortedByRate(seq) == SortInto(<<>>, seq)
\* sorted(..., reverse=True): the list is reversed, sorted, and reversed back.
SortedByRateReverse(seq) == Reverse(SortInto(<<>>, Reverse(seq)))

\* for coin in self.coins: avg_rate = self._average_funding_rate(history);
\* a coin whose average is None is left out.  avgs maps each coin to the
\* value _average_funding_rate returned for it.
RECURSIVE Processed(_, _)
Processed(coins, avgs) ==
    IF coins = <<>>
    THEN <<>>
    ELSE LET coin == Head(coins)
             rest == Processed(Tail(coins), avgs)
         IN  IF avgs[coin] = PyNone
             THEN rest
             ELSE <<[kind |-> "dict", symbol |-> coin,
                     average_3day_rate |-> avgs[coin],
                     apr |-> Apr(avgs[coin])]>> \o rest

FetchAllFundingRates(avgs) ==
    LET processed == Processed(Coins, avgs)
    IN  IF processed = <<>>
        THEN [top_long |-> <<>>, top_short |-> <<>>]
        ELSE [top_long |-> SortedByRate(processed),
              top_short |-> SortedByRateReverse(processed)]

\* -------------------------------------- fetch_and_store_hyperliquid_data
\* items.extend(payload.get("top_long", [])); items.extend(payload.get("top_short", []))
PayloadItems(payload) == payload.top_long \o payload.top_short

\* A variant of DictSet for comparison: every assignment adds an entry.
DictAppend(d, k, v) == Append(d, <<k, v>>)

\* symbol_rates[symbol] = rate on a dict kept as a sequence of <<key, value>>
\* in insertion order.
DictSet(d, k, v) ==
    IF \E i \in 1..Len(d) : d[i][1] = k
    THEN [i \in 1..Len(d) |-> IF d[i][1] = k THEN <<k, v>> ELSE d[i]]
    ELSE Append(d, <<k, v>>)

\* The body of "for item in items" for one item.
HyperliquidItem(item, symbol_rates) ==
    LET symbol == item.symbol
        rate_value == item.average_3day_rate
    IN  IF symbol = None \/ rate_value = PyNone
        THEN symbol_rates
        ELSE LET f == PyFloat(rate_value)
             IN  IF f.exc # None
                 THEN symbol_rates
                 ELSE IF ~IsFinite(f.val)
                 THEN symbol_rates
                 ELSE DictSet(symbol_rates, symbol, f.val)

RECURSIVE HyperliquidLoop(_, _)
HyperliquidLoop(its, symbol_rates) ==
    IF its = <<>>
    THEN symbol_rates
    ELSE HyperliquidLoop(Tail(its), HyperliquidItem(Head(its), symbol_rates))

\* for symbol, rate in symbol_rates.items(): db.session.add(FundingRate(...))
HyperliquidSession(symbol_rates, run) ==
    [i \in 1..Len(symbol_rates) |->
        Row("hyperliquid", symbol_rates[i][1], symbol_rates[i][2], run)]

\* "stored": len(symbol_rates)
HyperliquidStored(symbol_rates) == Len(symbol_rates)

\* ---------------------------------------------------------- status file
\* _write_status(data): json.dump over the one file _status_file_path() names.
WriteStatus(p, data) ==
    /\ statusFile' = data
    /\ wrote' = [wrote EXCEPT ![p] = <<data>>]
    /\ lastWritten' = [lastWritten EXCEPT ![data.job] = data.status]

\* _read_status(), what GET /api/status returns.
ReadStatus == IF statusFile = NoFile THEN [status |-> "idle"] ELSE statusFile

\* ------------------------------------------------------- the entry points
\* _write_status({"job": ..., "status": "running", "started_at": ...})
WriteRunning(p) ==
    /\ pc[p] = "status_running"
    /\ WriteStatus(p, [job |-> job[p], status |-> "running", started_at |-> PlusZ(IsoFormat(now))])
    /\ pc' = [pc EXCEPT ![p] = "fetch"]
    /\ UNCHANGED <<now, lockFile, job, lockLocals, runLocals, store, nruns, rid, call, response>>

\* response = client.session.get(...); response.raise_for_status();
\* data = response.json(); items = ...
FetchLighter(p, resp) ==
    /\ pc[p] = "fetch"
    /\ job[p] = "lighter"
    /\ IF resp.raises
       THEN /\ exc' = [exc EXCEPT ![p] = resp.error]
            /\ pc' = [pc EXCEPT ![p] = "status_failed"]
            /\ UNCHANGED items
       ELSE /\ items' = [items EXCEPT ![p] = ParseItems(resp.data)]
            /\ pc' = [pc EXCEPT ![p] = "store"]
            /\ UNCHANGED exc
    /\ UNCHANGED <<now, lockFile, statusFile, job, lockLocals, store, nruns, history, call, response>>

\* A variant of StoreLighter for comparison: the rows added before an exception are committed.
StoreLighterKeepsPartial(p) ==
    /\ pc[p] = "store"
    /\ job[p] = "lighter"
    /\ LET r == LighterLoop(items[p], <<>>, rid[p])
       IN  IF r.exc # None
           THEN /\ exc' = [exc EXCEPT ![p] = r.exc]
                /\ pc' = [pc EXCEPT ![p] = "status_failed"]
                /\ store' = store \o r.session
           ELSE /\ store' = store \o r.session
                /\ pc' = [pc EXCEPT ![p] = "status_completed"]
                /\ UNCHANGED exc
    /\ UNCHANGED <<now, lockFile, statusFile, job, lockLocals, items, nruns, history, call, response>>

\* with app.app_context(): for item in items: ...; db.session.commit()
StoreLighter(p) ==
    /\ pc[p] = "store"
    /\ job[p] = "lighter"
    /\ LET r == LighterLoop(items[p], <<>>, rid[p])
       IN  IF r.exc # None
           THEN /\ exc' = [exc EXCEPT ![p] = r.exc]
                /\ pc' = [pc EXCEPT ![p] = "status_failed"]
                /\ UNCHANGED store
           ELSE IF CommitRaises(r.session)
           THEN /\ exc' = [exc EXCEPT ![p] = "IntegrityError"]
                /\ pc' = [pc EXCEPT ![p] = "status_failed"]
                /\ UNCHANGED store
           ELSE /\ store' = store \o r.session
                /\ pc' = [pc EXCEPT ![p] = "status_completed"]
                /\ UNCHANGED exc
    /\ UNCHANGED <<now, lockFile, statusFile, job, lockLocals, items, nruns, history, call, response>>

\* payload = hyena_client.fetch_all_funding_rates(); items = []; ...
FetchHyperliquid(p, avgs) ==
    /\ pc[p] = "fetch"
    /\ job[p] = "hyperliquid"
    /\ items' = [items EXCEPT ![p] = PayloadItems(FetchAllFundingRates(avgs))]
    /\ pc' = [pc EXCEPT ![p] = "store"]
    /\ UNCHANGED <<now, lockFile, statusFile, job, lockLocals, exc, store, nruns, history, call, response>>

\* A variant of StoreHyperliquid for comparison: the commit leaves only the
\* rows of this run in the table.
StoreHyperliquidReplaces(p) ==
    /\ pc[p] = "store"
    /\ job[p] = "hyperliquid"
    /\ LET symbol_rates == HyperliquidLoop(items[p], <<>>)
           session == HyperliquidSession(symbol_rates, rid[p])
       IN  IF symbol_rates = <<>>
           THEN /\ pc' = [pc EXCEPT ![p] = "release"]
                /\ UNCHANGED <<store, exc>>
           ELSE /\ store' = session
                /\ pc' = [pc EXCEPT ![p] = "status_completed"]
                /\ UNCHANGED exc
    /\ UNCHANGED <<now, lockFile, statusFile, job, lockLocals, items, nruns, history, call, response>>

\* symbol_rates = {}; for item in items: ...; if not symbol_rates: return;
\* with app.app_context(): ...; db.session.commit()
StoreHyperliquid(p) ==
    /\ pc[p] = "store"
    /\ job[p] = "hyperliquid"
    /\ LET symbol_rates == HyperliquidLoop(items[p], <<>>)
           session == HyperliquidSession(symbol_rates, rid[p])
       IN  IF symbol_rates = <<>>
           THEN \* return: only the finally clause is left
                /\ pc' = [pc EXCEPT ![p] = "release"]
                /\ UNCHANGED <<store, exc>>
           ELSE IF CommitRaises(session)
           THEN /\ exc' = [exc EXCEPT ![p] = "IntegrityError"]
                /\ pc' = [pc EXCEPT ![p] = "status_failed"]
                /\ UNCHANGED store
           ELSE /\ store' = store \o session
                /\ pc' = [pc EXCEPT ![p] = "status_completed"]
                /\ UNCHANGED exc
    /\ UNCHANGED <<now, lockFile, statusFile, job, lockLocals, items, nruns, history, call, response>>

\* "stored": len(items) / "stored": len(symbol_rates)
Stored(p) ==
    IF job[p] = "lighter"
    THEN LighterStored(items[p], <<>>)
    ELSE HyperliquidStored(HyperliquidLoop(items[p], <<>>))

\* _write_status({"job": ..., "status": "completed", "stored": ..., "completed_at": ...})
WriteCompleted(p) ==
    /\ pc[p] = "status_completed"
    /\ WriteStatus(p, [job |-> job[p], status |-> "completed",
                       stored |-> Stored(p), completed_at |-> PlusZ(IsoFormat(now))])
    /\ pc' = [pc EXCEPT ![p] = "release"]
    /\ UNCHANGED <<now, lockFile, job, lockLocals, runLocals, store, nruns, rid, call, response>>

\* except Exception as e: _write_status({"job": ..., "status": "failed", ...})
WriteFailed(p) ==
    /\ pc[p] = "status_failed"
    /\ WriteStatus(p, [job |-> job[p], status |-> "failed",
                       error |-> exc[p], failed_at |-> PlusZ(IsoFormat(now))])
    /\ pc' = [pc EXCEPT ![p] = "release"]
    /\ UNCHANGED <<now, lockFile, job, lockLocals, runLocals, store, nruns, rid, call, response>>

\* The locals of a process that is gone.
Forget(p) ==
    /\ pc' = [pc EXCEPT ![p] = "idle"]
    /\ job' = [job EXCEPT ![p] = None]
    /\ acquired' = [acquired EXCEPT ![p] = None]
    /\ content' = [content EXCEPT ![p] = <<>>]
    /\ items' = [items EXCEPT ![p] = <<>>]
    /\ exc' = [exc EXCEPT ![p] = None]
    /\ rid' = [rid EXCEPT ![p] = 0]
    /\ wrote' = [wrote EXCEPT ![p] = <<>>]
    /\ call' = [call EXCEPT ![p] = NoCall]
    /\ UNCHANGED <<now, lockFile, statusFile, store, nruns, lastWritten, response>>

\* The entry point has returned and its process ends.
Exit(p) ==
    /\ pc[p] = "done"
    /\ Forget(p)

\* The process is killed while its lock file exists: nothing of it runs any
\* more, the finally clause included.  (Killed anywhere else it leaves
\* nothing behind that Exit would not.)
Crash(p) ==
    /\ pc[p] \in {"acq_write", "status_running", "fetch", "store",
                  "status_completed", "status_failed", "release"}
    /\ Forget(p)

\* Time passes.
Tick(horizon) ==
    /\ now + TickMinutes <= horizon
    /\ now' = now + TickMinutes
    /\ UNCHANGED <<lockFile, statusFile, pc, job, lockLocals, runLocals, store,
                   nruns, history, call, response>>

\* ---------------------------------------------------------------- inputs
\* What the Venue-A endpoint can answer: a failed request, or JSON that is
\* a list of items or a dict with or without the key funding_rates.
Batches(itemSet, n) == UNION {[1..k -> itemSet] : k \in 0..n}

\* session.get raises, or raise_for_status does.
FetchErrors == {"ConnectionError", "HTTPError"}

LighterResponses(itemSet, n) ==
    {[raises |-> TRUE, error |-> e] : e \in FetchErrors}
    \cup {[raises |-> FALSE, data |-> [isdict |-> FALSE, haskey |-> FALSE, list |-> b]] :
            b \in Batches(itemSet, n)}
    \cup {[raises |-> FALSE, data |-> [isdict |-> TRUE, haskey |-> TRUE, list |-> b]] :
            b \in Batches(itemSet, n)}
    \cup {[raises |-> FALSE, data |-> [isdict |-> TRUE, haskey |-> FALSE, list |-> <<>>]]}

\* An item of the list: a mapping with its symbol (None when the key is
\* missing or null) and its rate, or something that is not a mapping.
Item(symbol, rate) == [kind |-> "dict", symbol |-> symbol, rate |-> rate]
NotAMapping == [kind |-> "str"]

\* Items with every kind of rate and symbol the loop tells apart: decimal
\* strings, nan and the infinities, text that is no number, null, no rate
\* key, no symbol, and an item that is no mapping.
LighterItems ==
    {Item("BTC-USDC", Str("0.0001")), Item("eth-usdc", Str("-0.0002")),
     Item("BTC-USDC", Str("NaN")), Item("eth-usdc", Str("Infinity")),
     Item("BTC-USDC", Str("-Infinity")), Item("eth-usdc", Str("abc")),
     Item("BTC-USDC", PyNone), Item("eth-usdc", Missing),
     Item(None, Str("0.0001")), Item(None, Str("NaN")),
     NotAMapping}

\* What _average_funding_rate can return for a coin: None, or the mean of
\* the parsed fundingRate values, which float() lets be nan or infinite.
Averages == {PyNone, Finite(1), NaN, PosInf}
CoinSet == {Coins[i] : i \in 1..Len(Coins)}
HyperliquidInputs == [CoinSet -> Averages]

\* ------------------------------------------------------------------ Next
\* The steps of the system, given what the venues can answer (resps, avgs),
\* how many invocations a behaviour has (runs), how many entry points may
\* be running at once (active), and how far the clock runs (horizon).
NextOn(resps, avgs, runs, active, horizon) ==
    \/ \E p \in Procs, j \in Jobs : Invoke(p, j, runs, active)
    \/ \E p \in Procs : AcquireCreate(p)
    \/ \E p \in Procs : AcquireWrite(p)
    \/ \E p \in Procs : AcquireRead(p)
    \/ \E p \in Procs : AcquireAge(p)
    \/ \E p \in Procs : AcquireRemove(p)
    \/ \E p \in Procs : WriteRunning(p)
    \/ \E p \in Procs : \E resp \in resps : FetchLighter(p, resp)
    \/ \E p \in Procs : StoreLighter(p)
    \/ \E p \in Procs : \E a \in avgs : FetchHyperliquid(p, a)
    \/ \E p \in Procs : StoreHyperliquid(p)
    \/ \E p \in Procs : WriteCompleted(p)
    \/ \E p \in Procs : WriteFailed(p)
    \/ \E p \in Procs : Release(p)
    \/ \E p \in Procs : Exit(p)
    \/ \E p \in Procs : Crash(p)
    \/ Tick(horizon)

\* Concurrent invocations over a clock that passes the staleness threshold;
\* the venues answer with an error, nothing, or one observation.
LockResponses == LighterResponses({Item("BTC-USDC", Str("0.0001"))}, 1)
LockInputs == [CoinSet -> {PyNone, Finite(1)}]
Next == NextOn(LockResponses, LockInputs, MaxRuns, Cardinality(Procs), MaxTime)

Spec == Init /\ [][Next]_vars

\* One invocation after the other, with everything the venues can answer.
IngestResponses == LighterResponses(LighterItems, MaxItems)
NextIngest == NextOn(IngestResponses, HyperliquidInputs, IngestRuns, 1, MaxTime)

SpecIngest == Init /\ [][NextIngest]_vars

\* ========================================================= HTTP handlers
\* ------------------------------------------------------ float arithmetic
\* Largest finite float, in the units of Finite(n).
FloatMax == 100000
\* A finite float so large that twice it, or 24 * 365 times it, overflows.
Huge == (FloatMax \div 2) + 1

\* The float of the exact value num / den (den > 0), or inf / -inf when the
\* value is beyond the largest finite float.  A float with a field n has
\* the value n / 1.
Quotient(num, den) ==
    IF num > FloatMax * den THEN PosInf
    ELSE IF num < (0 - FloatMax) * den THEN NegInf
    ELSE [t |-> "float", cls |-> "finite", num |-> num, den |-> den]
Num(x) == IF "n" \in DOMAIN x THEN x.n ELSE x.num
Den(x) == IF "n" \in DOMAIN x THEN 1 ELSE x.den

\* a + b
FloatAdd(a, b) ==
    CASE a.cls = "nan" \/ b.cls = "nan" -> NaN
      [] a.cls = "finite" /\ b.cls = "finite" ->
            Quotient(Num(a) * Den(b) + Num(b) * Den(a), Den(a) * Den(b))
      [] a.cls = "finite" -> b
      [] b.cls = "finite" -> a
      [] OTHER -> IF a.cls = b.cls THEN a ELSE NaN
\* x / k and x * k for an int k > 0
FloatDiv(x, k) == IF x.cls = "finite" THEN Quotient(Num(x), Den(x) * k) ELSE x
FloatMul(x, k) == IF x.cls = "finite" THEN Quotient(Num(x) * k, Den(x)) ELSE x
\* a < b on finite floats
FloatLess(a, b) == Num(a) * Den(b) < Num(b) * Den(a)

\* sum(rates): 0 + rates[0] + rates[1] + ...
RECURSIVE SumFrom(_, _)
SumFrom(acc, rates) ==
    IF rates = <<>> THEN acc ELSE SumFrom(FloatAdd(acc, Head(rates)), Tail(rates))
Sum(rates) == SumFrom(Finite(0), rates)

\* ------------------------------------------------- aggregation endpoints
\* timedelta(hours=72), timedelta(days=7) and timedelta(hours=1) in minutes
MinutesPerHour == 60
WindowHours == 72
HistoryDays == 7
Window == WindowHours * MinutesPerHour
HistoryWindow == HistoryDays * HoursPerDay * MinutesPerHour

\* A variant of RecentRates for comparison: the rows of every venue.
RecentRatesAnyVenue(exchange) ==
    SelectSeq(store, LAMBDA row : row.timestamp >= now - Window)

\* FundingRate.query.filter(exchange == ..., timestamp >= cutoff_time).all()
RecentRates(exchange) ==
    SelectSeq(store, LAMBDA row : /\ row.exchange = exchange
                                  /\ row.timestamp >= now - Window)

\* symbol_rates[symbol].append(rate), the list created on first use; the
\* dict is a sequence of <<symbol, rates>> in insertion order.
ListAppend(d, k, v) ==
    IF \E i \in 1..Len(d) : d[i][1] = k
    THEN [i \in 1..Len(d) |-> IF d[i][1] = k THEN <<k, Append(d[i][2], v)>> ELSE d[i]]
    ELSE Append(d, <<k, <<v>>>>)

\* for record in recent_rates: skip an invalid rate, else group by symbol
RECURSIVE GroupBySymbol(_, _)
GroupBySymbol(rows, symbol_rates) ==
    IF rows = <<>>
    THEN symbol_rates
    ELSE LET record == Head(rows)
         IN  GroupBySymbol(Tail(rows),
                IF record.rate = PyNone \/ record.rate.t # "float" \/ ~IsFinite(record.rate)
                THEN symbol_rates
                ELSE ListAppend(symbol_rates, record.symbol, record.rate))

\* A variant of AverageEntry for comparison: a year of 360 days.
AverageEntry360(symbol, rates) ==
    LET avg_rate == FloatDiv(Sum(rates), Len(rates))
        apr == FloatMul(FloatMul(avg_rate, HoursPerDay), 360)
    IN  IF rates = <<>> \/ ~IsFinite(avg_rate) \/ ~IsFinite(apr)
        THEN <<>>
        ELSE <<[symbol |-> symbol, average_3day_rate |-> avg_rate, apr |-> apr]>>

\* The body of "for symbol, rates in symbol_rates.items()": the entry
\* appended to averages, if any.
AverageEntry(symbol, rates) ==
    LET avg_rate == FloatDiv(Sum(rates), Len(rates))
        apr == FloatMul(FloatMul(avg_rate, HoursPerDay), DaysPerYear)
    IN  IF rates = <<>> \/ ~IsFinite(avg_rate) \/ ~IsFinite(apr)
        THEN <<>>
        ELSE <<[symbol |-> symbol, average_3day_rate |-> avg_rate, apr |-> apr]>>

RECURSIVE AverageEntries(_)
AverageEntries(symbol_rates) ==
    IF symbol_rates = <<>>
    THEN <<>>
    ELSE AverageEntry(Head(symbol_rates)[1], Head(symbol_rates)[2])
            \o AverageEntries(Tail(symbol_rates))

\* One insertion of the stable sort behind sorted(averages, key=...).
RECURSIVE InsertByAverage(_, _)
InsertByAverage(x, seq) ==
    IF seq = <<>>
    THEN <<x>>
    ELSE LET last == seq[Len(seq)]
             front == SubSeq(seq, 1, Len(seq) - 1)
         IN  IF FloatLess(x.average_3day_rate, last.average_3day_rate)
             THEN Append(InsertByAverage(x, front), last)
             ELSE Append(seq, x)

RECURSIVE SortAveragesInto(_, _)
SortAveragesInto(done, rest) ==
    IF rest = <<>>
    THEN done
    ELSE SortAveragesInto(InsertByAverage(Head(rest), done), Tail(rest))

\* sorted(averages, key=lambda x: x['average_3day_rate'])
TopLong(averages) == SortAveragesInto(<<>>, averages)

\* A variant of TopShort for comparison: reverse left out.
TopShortAscending(averages) == SortAveragesInto(<<>>, averages)

\* sorted(averages, key=lambda x: x['average_3day_rate'], reverse=True)
TopShort(averages) == Reverse(SortAveragesInto(<<>>, Reverse(averages)))

\* (now + timedelta(hours=1)).replace(minute=0, second=0, microsecond=0)
NextFunding(t) == ((t + MinutesPerHour) \div MinutesPerHour) * MinutesPerHour

\* The JSON the aggregation handlers return with status 200.
AggregationBody(exchange) ==
    LET recent_rates == RecentRates(exchange)
        averages == AverageEntries(GroupBySymbol(recent_rates, <<>>))
    IN  IF recent_rates = <<>>
        THEN [top_long |-> <<>>, top_short |-> <<>>,
              timestamp |-> PlusZ(IsoFormat(now))]
        ELSE [top_long |-> TopLong(averages),
              top_short |-> TopShort(averages),
              timestamp |-> PlusZ(IsoFormat(now)),
              next_funding_time |-> PlusZ(IsoFormat(NextFunding(now)))]

\* The JSON of "except Exception", returned with status 500.
AggregationErrorBody ==
    [top_long |-> <<>>, top_short |-> <<>>,
     timestamp |-> PlusZ(IsoFormat(now)), next_funding_time |-> PyNone]

\* ----------------------------------------------------- history endpoints
\* str.upper() on the symbols a client asks for.
Upper(symbol) ==
    CASE symbol = "eth" -> "ETH"
      [] symbol = "kPEPE" -> "KPEPE"
      [] symbol = "eth-usdc" -> "ETH-USDC"
      [] OTHER -> symbol

\* One insertion of the stable sort behind order_by(timestamp.asc()).
RECURSIVE InsertByTimestamp(_, _)
InsertByTimestamp(x, seq) ==
    IF seq = <<>>
    THEN <<x>>
    ELSE LET last == seq[Len(seq)]
             front == SubSeq(seq, 1, Len(seq) - 1)
         IN  IF x.timestamp < last.timestamp
             THEN Append(InsertByTimestamp(x, front), last)
             ELSE Append(seq, x)

RECURSIVE OrderByTimestamp(_, _)
OrderByTimestamp(done, rest) ==
    IF rest = <<>>
    THEN done
    ELSE OrderByTimestamp(InsertByTimestamp(Head(rest), done), Tail(rest))

\* A variant of ToDict for comparison: the timestamp carries the Z.
ToDictZ(row) ==
    [symbol |-> row.symbol, rate |-> row.rate,
     timestamp |-> PlusZ(IsoFormat(row.timestamp))]

\* FundingRate.to_dict
ToDict(row) ==
    [symbol |-> row.symbol, rate |-> row.rate,
     timestamp |-> IsoFormat(row.timestamp)]

\* A variant of History for comparison: the symbol is looked up as given.
HistoryAsGiven(exchange, symbol) ==
    OrderByTimestamp(<<>>,
        SelectSeq(store, LAMBDA row : /\ row.exchange = exchange
                                      /\ row.symbol = symbol
                                      /\ row.timestamp >= now - HistoryWindow))

\* symbol = symbol.upper(); FundingRate.query.filter(exchange == ...,
\* symbol == symbol, timestamp >= cutoff_time).order_by(timestamp.asc()).all()
History(exchange, symbol) ==
    OrderByTimestamp(<<>>,
        SelectSeq(store, LAMBDA row : /\ row.exchange = exchange
                                      /\ row.symbol = Upper(symbol)
                                      /\ row.timestamp >= now - HistoryWindow))

\* [item.to_dict() for item in history]
HistoryBody(exchange, symbol) ==
    LET history_ == History(exchange, symbol)
    IN  [i \in 1..Len(history_) |-> ToDict(history_[i])]

\* ---------------------------------------------------------- the handlers
\* The worker answers one request at a time; db is FALSE when the query
\* raises (the database is locked or gone).
Respond(endpoint, exchange, symbol, code, body) ==
    /\ response = NoResponse
    /\ response' = [endpoint |-> endpoint, exchange |-> exchange,
                    symbol |-> symbol, code |-> code, body |-> body]
    /\ UNCHANGED <<now, lockFile, statusFile, pc, job, lockLocals, runLocals,
                   store, nruns, history, call>>

Aggregate(endpoint, exchange, db) ==
    IF db
    THEN Respond(endpoint, exchange, None, 200, AggregationBody(exchange))
    ELSE Respond(endpoint, exchange, None, 500, AggregationErrorBody)

\* GET /api/status
get_status == Respond("/api/status", None, None, 200, ReadStatus)
\* GET /api/funding_rates
get_funding_rates(db) == Aggregate("/api/funding_rates", "lighter", db)
\* GET /api/hyperliquid/funding_rates
get_hyperliquid_funding_rates(db) ==
    Aggregate("/api/hyperliquid/funding_rates", "hyperliquid", db)
\* GET /api/hyena/funding_rates
get_hyena_funding_rates(db) ==
    Aggregate("/api/hyena/funding_rates", "hyperliquid", db)

SymbolHistory(endpoint, exchange, symbol, db) ==
    IF db
    THEN Respond(endpoint, exchange, symbol, 200, HistoryBody(exchange, symbol))
    ELSE Respond(endpoint, exchange, symbol, 500, <<>>)

\* GET /api/funding_rates/<symbol>
get_symbol_history(symbol, db) ==
    SymbolHistory("/api/funding_rates/<symbol>", "lighter", symbol, db)
\* GET /api/hyperliquid/funding_rates/<symbol>
get_hyperliquid_symbol_history(symbol, db) ==
    SymbolHistory("/api/hyperliquid/funding_rates/<symbol>", "hyperliquid", symbol, db)

\* The response reaches the client.
Deliver ==
    /\ response # NoResponse
    /\ response' = NoResponse
    /\ UNCHANGED <<now, lockFile, statusFile, pc, job, lockLocals, runLocals,
                   store, nruns, history, call>>

\* ------------------------------------------------- what the handlers meet
\* Longest table in a behaviour of SpecApi.
MaxRows == 3
\* Symbols the venues name and clients ask for, in the casings they use.
StoredSymbols == {"ETH", "kPEPE"}
AskedSymbols == {"ETH", "eth", "kPEPE", "KPEPE", "BTC"}
\* Moments rows are inserted at and requests arrive at: around the edges of
\* the 72-hour and the 7-day window of a row inserted at 0.
RowTimes == {0, Window + 1}
RequestTimes == {Window, Window + 1, HistoryWindow, HistoryWindow + 1}

\* Rows the jobs can have inserted: both venues, finite rates only.
ApiRows ==
    {[exchange |-> r[1], symbol |-> r[2], rate |-> r[3], timestamp |-> t, run |-> 0] :
        r \in {<<"lighter", "ETH", Finite(-2)>>,
               <<"lighter", "ETH", Finite(1)>>,
               <<"lighter", "ETH", Finite(Huge)>>,
               <<"lighter", "kPEPE", Finite(1)>>,
               <<"hyperliquid", "ETH", Finite(1)>>,
               <<"hyperliquid", "ETH", Finite(Huge)>>,
               <<"hyperliquid", "kPEPE", Finite(-2)>>},
        t \in RowTimes}

\* Tables of at most n rows, inserted in the order of their timestamps.
Tables(n) ==
    {t \in UNION {[1..k -> ApiRows] : k \in 0..n} :
        \A i \in 1..Len(t) - 1 : t[i].timestamp <= t[i + 1].timestamp}
ApiTables == Tables(MaxRows)

\* Status files the jobs can have left.
ApiStatusFiles ==
    {NoFile,
     [job |-> "lighter", status |-> "running", started_at |-> PlusZ(IsoFormat(0))],
     [job |-> "hyperliquid", status |-> "completed", stored |-> 1,
      completed_at |-> PlusZ(IsoFormat(0))]}

\* No job is running; the table and the status file are what earlier runs
\* left, and a request arrives.
InitApi ==
    /\ now \in RequestTimes
    /\ store \in ApiTables
    /\ \A i \in 1..Len(store) : store[i].timestamp <= now
    /\ statusFile \in ApiStatusFiles
    /\ lockFile = [j \in Jobs |-> NoFile]
    /\ items = [p \in Procs |-> <<>>]
    /\ exc = [p \in Procs |-> None]
    /\ rid = [p \in Procs |-> 0]
    /\ wrote = [p \in Procs |-> <<>>]
    /\ lastWritten = [j \in Jobs |-> None]
    /\ pc = [p \in Procs |-> "idle"]
    /\ job = [p \in Procs |-> None]
    /\ acquired = [p \in Procs |-> None]
    /\ content = [p \in Procs |-> <<>>]
    /\ nruns = 0
    /\ call = [p \in Procs |-> NoCall]
    /\ response = NoResponse

NextApi ==
    \/ get_status
    \/ \E db \in BOOLEAN : get_funding_rates(db)
    \/ \E db \in BOOLEAN : get_hyperliquid_funding_rates(db)
    \/ \E db \in BOOLEAN : get_hyena_funding_rates(db)
    \/ \E symbol \in AskedSymbols, db \in BOOLEAN : get_symbol_history(symbol, db)
    \/ \E symbol \in AskedSymbols, db \in BOOLEAN : get_hyperliquid_symbol_history(symbol, db)
    \/ Deliver

SpecApi == InitApi /\ [][NextApi]_vars

\* ------------------------------------------- jobs and handlers together
\* The jobs run one after the other while clients read; Venue-A delivers
\* one symbol in upper and one in lower case.
ServeResponses ==
    LighterResponses({Item("BTC-USDC", Str("0.0001")), Item("eth-usdc", Str("-0.0002"))}, 1)
ServeSymbols == {"eth-usdc", "ETH-USDC"}

NextServe ==
    \/ NextOn(ServeResponses, LockInputs, IngestRuns, 1, MaxTime)
    \/ get_status
    \/ \E db \in BOOLEAN : get_funding_rates(db)
    \/ \E db \in BOOLEAN : get_hyperliquid_funding_rates(db)
    \/ \E db \in BOOLEAN : get_hyena_funding_rates(db)
    \/ \E symbol \in ServeSymbols, db \in BOOLEAN : get_symbol_history(symbol, db)
    \/ \E symbol \in ServeSymbols, db \in BOOLEAN : get_hyperliquid_symbol_history(symbol, db)
    \/ Deliver

SpecServe == Init /\ [][NextServe]_vars

\* ================================================================ claims
\* A run between the return of True by _acquire_lock and its _release_lock.
Holding(p) ==
    /\ acquired[p] = "True"
    /\ pc[p] \in {"status_running", "fetch", "store", "status_completed",
                  "status_failed", "release"}

\* _acquire_lock has returned to process p, which took no step since.
JustReturned(p) ==
    \/ pc[p] = "status_running"
    \/ pc[p] = "done" /\ acquired[p] = "False"

\* At time t the lock file f exists and is more than 30 minutes old, by the
\* start time written in it or, while it is empty, by its modification time.
MarkerIsOld(f, t) ==
    /\ f # NoFile
    /\ t - (IF f.content = <<>> THEN f.mtime ELSE f.content[1]) > StaleMinutes

\* The call of p met no other call on its job and nobody else changed the
\* lock file while it ran.
Alone(p) == call[p].solo /\ call[p].rivals = {}

\* C1: two _acquire_lock calls on the same job that ran concurrently never
\* both return True, whatever the lock file was when they started: when a
\* call returns True, no process whose call overlapped it holds the lock of
\* that job.  (Stated for calls during which the clock did not move, so that
\* only the interleaving of their steps is at work.)
C1_MutualExclusion ==
    \A p \in Procs, q \in Procs :
        (/\ p # q /\ job[p] = job[q]
         /\ pc[q] = "status_running" /\ p \in call[q].rivals
         /\ call[p].at = now /\ call[q].at = now)
            => ~Holding(p)

\* C2: for each job name, at most one run is between its successful acquire
\* and its release.
C2_AtMostOneActiveRun ==
    \A p \in Procs, q \in Procs :
        (p # q /\ job[p] = job[q]) => ~(Holding(p) /\ Holding(q))

\* C3: an acquire invoked when the lock file of its job is more than 30
\* minutes old, and that runs alone, returns True.
C3_StaleLockReclaimed ==
    \A p \in Procs :
        (JustReturned(p) /\ Alone(p) /\ MarkerIsOld(call[p].entry, call[p].at))
            => acquired[p] = "True"

\* C4 as stated: an acquire that runs alone returns True when there is no
\* lock file at its start, and False when there is one that an earlier
\* acquire wrote and nobody released.
C4_SequentialAcquire ==
    \A p \in Procs :
        (JustReturned(p) /\ Alone(p)) =>
            /\ call[p].entry = NoFile => acquired[p] = "True"
            /\ (call[p].entry # NoFile /\ call[p].entry.content # <<>>)
                    => acquired[p] = "False"

\* C4 amended: an acquire that runs alone returns True when there is no lock
\* file at its start (the first call, and the call after a release), and
\* False when there is one whose written start time is at most 30 minutes
\* back when the call returns.
C4_SequentialAcquireWithin30 ==
    \A p \in Procs :
        (JustReturned(p) /\ Alone(p)) =>
            /\ call[p].entry = NoFile => acquired[p] = "True"
            /\ (/\ call[p].entry # NoFile
                /\ call[p].entry.content # <<>>
                /\ now - call[p].entry.content[1] <= StaleMinutes)
                    => acquired[p] = "False"

\* C4 witness: a second acquire found the lock file that the acquire of
\* another process had written, within 30 minutes, and returned False.
C4_Witness ==
    \E p \in Procs :
        /\ JustReturned(p) /\ Alone(p)
        /\ call[p].entry # NoFile
        /\ call[p].entry.ino \in Procs \ {p}
        /\ call[p].entry.content # <<>>
        /\ now - call[p].entry.content[1] <= StaleMinutes
        /\ acquired[p] = "False"

\* C8: a run that acquired its lock has written a terminal status when it
\* returns.
C8_TerminalStatusWritten ==
    \A p \in Procs :
        (pc[p] = "done" /\ acquired[p] = "True") =>
            /\ wrote[p] # <<>>
            /\ wrote[p][1].status \in {"completed", "failed"}

\* C9: the status record of every job that has written one is the one the
\* job wrote last.
C9_StatusPerJob ==
    \A j \in Jobs :
        lastWritten[j] # None =>
            /\ statusFile # NoFile
            /\ ReadStatus.job = j
            /\ ReadStatus.status = lastWritten[j]

\* ------------------------------------------------------ ingestion claims
\* The rows invocation r has in the table, as <<symbol, rate>>.
RECURSIVE RowsOf(_, _)
RowsOf(rows, r) ==
    IF rows = <<>>
    THEN <<>>
    ELSE IF Head(rows).run = r
         THEN <<<<Head(rows).symbol, Head(rows).rate>>>> \o RowsOf(Tail(rows), r)
         ELSE RowsOf(Tail(rows), r)

\* The rate a fetched item carries, as the job reads it.
RawRateOf(p, item) ==
    IF job[p] = "lighter" THEN Get(item.rate, Str("0")) ELSE item.average_3day_rate

\* The item carries a rate that is a number and finite.
HasFiniteRate(p, item) ==
    /\ item.kind = "dict"
    /\ PyFloat(RawRateOf(p, item)).exc = None
    /\ PyFloat(RawRateOf(p, item)).val.cls = "finite"

\* The <<symbol, rate>> of the items with a finite numeric rate, one per
\* item for Venue-A and one per symbol for Venue-B.
RECURSIVE ValidRows(_, _, _)
ValidRows(p, its, seen) ==
    IF its = <<>>
    THEN <<>>
    ELSE LET item == Head(its)
             take == /\ HasFiniteRate(p, item)
                     /\ job[p] = "hyperliquid" => item.symbol \notin seen
         IN  IF take
             THEN <<<<item.symbol, PyFloat(RawRateOf(p, item)).val>>>>
                    \o ValidRows(p, Tail(its), seen \cup {item.symbol})
             ELSE ValidRows(p, Tail(its), seen)

FetchFailed(p) == exc[p] \in FetchErrors

\* C5: every row of the table has a finite rate.
C5_StoredRatesFinite ==
    \A i \in 1..Len(store) : store[i].rate.cls = "finite"

\* C5 witness: a run has committed rows of a batch in which an item had a
\* rate that is no finite number.
C5_Witness ==
    \E p \in Procs :
        /\ pc[p] = "status_completed"
        /\ \E i \in 1..Len(items[p]) : ~HasFiniteRate(p, items[p][i])
        /\ RowsOf(store, rid[p]) # <<>>

\* C6: the stored count a completed run reports is the number of rows it
\* appended.
C6_StoredCountIsRowsAppended ==
    \A p \in Procs :
        (pc[p] \in {"release", "done"} /\ wrote[p] # <<>> /\ wrote[p][1].status = "completed")
            => wrote[p][1].stored = Len(RowsOf(store, rid[p]))

\* A Venue-A item that is malformed: no mapping, no symbol, no rate, or a
\* rate that is no number.
Malformed(item) ==
    \/ item.kind # "dict"
    \/ item.symbol = None
    \/ item.rate = Missing
    \/ PyFloat(item.rate).exc # None

\* The <<symbol, rate>> of the Venue-A items that are well formed and finite.
RECURSIVE WellFormedRows(_)
WellFormedRows(its) ==
    IF its = <<>>
    THEN <<>>
    ELSE IF ~Malformed(Head(its)) /\ PyFloat(Head(its).rate).val.cls = "finite"
         THEN <<<<Head(its).symbol, PyFloat(Head(its).rate).val>>>> \o WellFormedRows(Tail(its))
         ELSE WellFormedRows(Tail(its))

\* C7: a Venue-A run whose fetch answered with a batch holding a malformed
\* item ends completed, with every well-formed item of the batch stored and
\* nothing else.
C7_MalformedItemSkipped ==
    \A p \in Procs :
        (/\ job[p] = "lighter" /\ pc[p] = "done" /\ acquired[p] = "True"
         /\ ~FetchFailed(p)
         /\ \E i \in 1..Len(items[p]) : Malformed(items[p][i]))
            => /\ wrote[p] # <<>> /\ wrote[p][1].status = "completed"
               /\ RowsOf(store, rid[p]) = WellFormedRows(items[p])

\* C10: at every moment the rows of a run in the table are none or the
\* rows of all its items with a finite numeric rate, and none once the run
\* has failed.
C10_BatchCommitAtomic ==
    \A p \in Procs :
        rid[p] # 0 =>
            /\ \/ RowsOf(store, rid[p]) = <<>>
               \/ RowsOf(store, rid[p]) = ValidRows(p, items[p], {})
            /\ (pc[p] = "status_failed" \/ (wrote[p] # <<>> /\ wrote[p][1].status = "failed"))
                    => RowsOf(store, rid[p]) = <<>>

\* C10 witness: a run failed in the middle of its batch, after an item that
\* had a finite numeric rate.
C10_Witness ==
    \E p \in Procs :
        /\ pc[p] = "release" /\ wrote[p] # <<>> /\ wrote[p][1].status = "failed"
        /\ ~FetchFailed(p)
        /\ Len(items[p]) = 2
        /\ HasFiniteRate(p, items[p][1])
        /\ items[p][2].kind # "dict"
        /\ RowsOf(store, rid[p]) = <<>>

\* ------------------------------------------------- run end and contention
\* C11: a run that acquired the lock of its job returns, on every path
\* (completed, failed, or the early return on no usable data), by a step
\* after which the lock file of that job is absent.
C11_LockRemovedAtRunEnd ==
    [][\A p \in Procs :
          (acquired[p] = "True" /\ pc[p] # "done" /\ pc'[p] = "done")
              => lockFile'[job[p]] = NoFile]_vars

\* C11 witness: a Venue-B run has returned early, on no usable data, and
\* the lock file of its job is absent.
C11_Witness ==
    \E p \in Procs :
        /\ pc[p] = "done" /\ acquired[p] = "True" /\ job[p] = "hyperliquid"
        /\ wrote[p] # <<>> /\ wrote[p][1].status = "running"
        /\ lockFile[job[p]] = NoFile

\* The steps of _acquire_lock on the path that finds the file present and
\* not stale: FileExistsError, the read, the age test, return False.
OnRefusalPath(p) ==
    /\ pc[p] \in {"acq_create", "acq_read", "acq_age"}
    /\ pc'[p] \in {"acq_read", "acq_age", "done"}
    /\ pc'[p] # pc[p]

\* C18: an invocation whose _acquire_lock finds the lock held changes
\* neither the table, nor the status file, nor any lock file on its way to
\* returning False, and it returns with no exception and no status written.
C18_ContentionSkipsSilently ==
    [][\A p \in Procs :
          OnRefusalPath(p)
              => /\ store' = store
                 /\ statusFile' = statusFile
                 /\ lockFile' = lockFile
                 /\ pc'[p] = "done"
                        => /\ acquired'[p] = "False"
                           /\ exc'[p] = None
                           /\ wrote'[p] = <<>>]_vars

\* C18 witness: an invocation has returned False while another run of the
\* same job holds the lock it created, which is still in place.
C18_Witness ==
    \E p \in Procs, q \in Procs :
        /\ p # q /\ job[p] = job[q]
        /\ pc[p] = "done" /\ acquired[p] = "False"
        /\ Holding(q)
        /\ lockFile[job[q]] # NoFile
        /\ lockFile[job[q]].ino = q
        /\ ~MarkerIsOld(lockFile[job[q]], now)

\* --------------------------------------------------- one row per symbol
\* Number of rows invocation r has in the table for a symbol.
RowCount(rows, r, symbol) ==
    Cardinality({i \in 1..Len(rows) : rows[i].run = r /\ rows[i].symbol = symbol})

\* The fetched payload lists the symbol with a finite average rate.
HasFiniteAverage(its, symbol) ==
    \E i \in 1..Len(its) :
        /\ its[i].symbol = symbol
        /\ its[i].average_3day_rate # PyNone
        /\ its[i].average_3day_rate.cls = "finite"

\* C19: a completed Venue-B run has exactly one row for each symbol the
\* payload lists with a finite average rate, and rows for no other symbol.
C19_OneRowPerSymbol ==
    \A p \in Procs :
        (/\ job[p] = "hyperliquid" /\ pc[p] \in {"release", "done"}
         /\ wrote[p] # <<>> /\ wrote[p][1].status = "completed")
            => /\ \A symbol \in CoinSet :
                    RowCount(store, rid[p], symbol)
                        = IF HasFiniteAverage(items[p], symbol) THEN 1 ELSE 0
               /\ \A i \in 1..Len(store) :
                    store[i].run = rid[p] => store[i].symbol \in CoinSet

\* C19 witness: a completed Venue-B run whose payload listed two symbols,
\* each in top_long and in top_short, one of them with a finite average.
C19_Witness ==
    \E p \in Procs :
        /\ job[p] = "hyperliquid" /\ pc[p] = "release"
        /\ wrote[p] # <<>> /\ wrote[p][1].status = "completed"
        /\ Len(items[p]) = 4
        /\ \E a \in CoinSet, b \in CoinSet :
              /\ HasFiniteAverage(items[p], a) /\ ~HasFiniteAverage(items[p], b)
              /\ RowCount(store, rid[p], a) = 1

\* ------------------------------------------------------ handler claims
AggregationEndpoints ==
    {"/api/funding_rates", "/api/hyperliquid/funding_rates", "/api/hyena/funding_rates"}
HistoryEndpoints ==
    {"/api/funding_rates/<symbol>", "/api/hyperliquid/funding_rates/<symbol>"}

\* The response in flight is an aggregation / a history response.
IsAggregation == response.endpoint \in AggregationEndpoints
IsHistory == response.endpoint \in HistoryEndpoints
Symbols(list) == {list[i].symbol : i \in 1..Len(list)}
Emitted == response.body.top_long \o response.body.top_short

\* C12: in every aggregation response top_long is in ascending and
\* top_short in descending order of mean rate, both lists hold the same
\* symbols, and each holds a symbol once.
C12_TopListsSorted ==
    IsAggregation =>
        LET long == response.body.top_long
            short == response.body.top_short
        IN  /\ \A i \in 1..Len(long), j \in 1..Len(long) :
                  i < j => ~FloatLess(long[j].average_3day_rate, long[i].average_3day_rate)
            /\ \A i \in 1..Len(short), j \in 1..Len(short) :
                  i < j => ~FloatLess(short[i].average_3day_rate, short[j].average_3day_rate)
            /\ Symbols(long) = Symbols(short)
            /\ Cardinality(Symbols(long)) = Len(long)
            /\ Cardinality(Symbols(short)) = Len(short)

\* C12 witness: an aggregation response lists two symbols of different
\* mean rates.
C12_Witness ==
    /\ IsAggregation
    /\ Len(response.body.top_long) = 2
    /\ FloatLess(response.body.top_long[1].average_3day_rate,
                 response.body.top_long[2].average_3day_rate)

\* A rendered moment ends in Z.
EndsInZ(text) == text # PyNone /\ text.suffix = "Z"

\* The venue of the response has no row of the last 72 hours.
WindowIsEmpty ==
    ~\E i \in 1..Len(store) :
        /\ store[i].exchange = response.exchange
        /\ store[i].timestamp >= now - Window

\* C13: an aggregation over an empty window, its query having succeeded,
\* answers 200 with top_long = [] and top_short = [] and with timestamp and
\* next_funding_time, as the response over a window with rows does.
C13_EmptyWindowShape ==
    (IsAggregation /\ response.code = 200 /\ WindowIsEmpty)
        => /\ response.body.top_long = <<>>
           /\ response.body.top_short = <<>>
           /\ EndsInZ(response.body.timestamp)
           /\ "next_funding_time" \in DOMAIN response.body
           /\ EndsInZ(response.body.next_funding_time)

\* C14: for every entry of an aggregation response, apr is the mean rate
\* times 24 times 365 exactly, and mean rate and apr are finite floats.
C14_AprIsAnnualisedMean ==
    IsAggregation =>
        \A i \in 1..Len(Emitted) :
            LET e == Emitted[i]
                mean == e.average_3day_rate
            IN  /\ mean.cls = "finite" /\ e.apr.cls = "finite"
                /\ Num(e.apr) * Den(mean) = Num(mean) * 24 * 365 * Den(e.apr)
                /\ Num(e.apr) <= FloatMax * Den(e.apr)
                /\ Num(e.apr) >= (0 - FloatMax) * Den(e.apr)

\* C14 witness: an aggregation response lists a symbol while another symbol
\* of its window, whose annualised mean is beyond the largest float, is
\* left out.
C14_Witness ==
    /\ IsAggregation /\ response.code = 200
    /\ response.body.top_long # <<>>
    /\ \E i \in 1..Len(store) :
          /\ store[i].exchange = response.exchange
          /\ store[i].timestamp >= now - Window
          /\ store[i].rate = Finite(Huge)
          /\ store[i].symbol \notin Symbols(response.body.top_long)

\* Two symbol strings that differ in the case of their letters at most.
CaseClasses ==
    {{"ETH", "eth"}, {"kPEPE", "KPEPE"}, {"BTC"}, {"ETH-USDC", "eth-usdc"}, {"BTC-USDC"}}
SameButCase(a, b) == \E class \in CaseClasses : a \in class /\ b \in class

\* C15: a history response is what the handler returns, on the same table
\* at the same moment, for every other casing of the symbol asked for.
C15_HistoryIgnoresCase ==
    (IsHistory /\ response.code = 200)
        => \A other \in AskedSymbols :
              SameButCase(response.symbol, other)
                  => response.body = HistoryBody(response.exchange, other)

\* C15 witness: a history asked for in lower case has come back with rows.
C15_Witness ==
    /\ IsHistory /\ response.code = 200
    /\ response.symbol = "eth"
    /\ response.body # <<>>

\* The rows of the venue and the symbol asked for, of the last 7 days, as
\* <<symbol, rate, timestamp>>, in the order of insertion, which is the
\* order of their timestamps.
RECURSIVE ExpectedHistory(_)
ExpectedHistory(rows) ==
    IF rows = <<>>
    THEN <<>>
    ELSE LET row == Head(rows)
         IN  IF /\ row.exchange = response.exchange
                /\ SameButCase(row.symbol, response.symbol)
                /\ row.timestamp >= now - HistoryWindow
             THEN <<<<row.symbol, row.rate, row.timestamp>>>> \o ExpectedHistory(Tail(rows))
             ELSE ExpectedHistory(Tail(rows))

\* C16: a history response, its query having succeeded, answers 200 with
\* exactly the rows of that venue and that symbol of the last 7 days, in
\* ascending order of timestamp (so with [] when there are none).
C16_HistoryIsTheStoredRows ==
    (IsHistory /\ response.code = 200)
        => [i \in 1..Len(response.body) |->
               <<response.body[i].symbol, response.body[i].rate,
                 response.body[i].timestamp.text>>]
             = ExpectedHistory(store)

\* The moments a response renders.
Rendered ==
    IF IsAggregation
    THEN {response.body.timestamp}
            \cup (IF "next_funding_time" \in DOMAIN response.body
                  THEN {response.body.next_funding_time} \ {PyNone} ELSE {})
    ELSE IF IsHistory
    THEN {response.body[i].timestamp : i \in 1..Len(response.body)}
    ELSE IF response.endpoint = "/api/status"
    THEN {response.body[f] :
            f \in DOMAIN response.body \cap {"started_at", "completed_at", "failed_at"}}
    ELSE {}

\* C17: every moment in every response is rendered with a Z at its end.
C17_TimestampsEndInZ ==
    \A text \in Rendered : EndsInZ(text)

\* The finite rates of the rows of the venue of the response, of a symbol,
\* of the last 72 hours.
RECURSIVE WindowRates(_, _)
WindowRates(rows, symbol) ==
    IF rows = <<>>
    THEN <<>>
    ELSE LET row == Head(rows)
         IN  IF /\ row.exchange = response.exchange
                /\ row.symbol = symbol
                /\ row.timestamp >= now - Window
                /\ row.rate # PyNone /\ row.rate.cls = "finite"
             THEN <<row.rate.n>> \o WindowRates(Tail(rows), symbol)
             ELSE WindowRates(Tail(rows), symbol)

RECURSIVE Total(_)
Total(ns) == IF ns = <<>> THEN 0 ELSE Head(ns) + Total(Tail(ns))

Answers == response = NoResponse /\ response' # NoResponse

\* C21: every step leaves every row of the table where and as it is, with
\* its exchange, symbol, rate and timestamp, new rows coming after it; and
\* a handler answering a request changes neither the table, nor a lock
\* file, nor the status file.
C21_AppendOnly ==
    [][/\ Len(store') >= Len(store)
       /\ \A i \in 1..Len(store) : store'[i] = store[i]
       /\ Answers => /\ store' = store
                     /\ lockFile' = lockFile
                     /\ statusFile' = statusFile]_vars

\* C21 witness: the table holds rows of two runs, the first of them
\* Venue-A's, and a handler has answered from it.
C21_Witness ==
    /\ Len(store) >= 2
    /\ store[1].exchange = "lighter" /\ store[1].run = 1
    /\ store[Len(store)].exchange = "hyperliquid" /\ store[Len(store)].run = 2
    /\ response # NoResponse
    /\ response.code = 200

\* C22: a history response, its query having succeeded, holds every row
\* of its venue in the table whose symbol is the symbol asked for but for
\* the case of its letters.  (The clock of these behaviours stays within
\* 7 days of every row.)
C22_StoredIsRetrievable ==
    (IsHistory /\ response.code = 200)
        => \A i \in 1..Len(store) :
              (/\ store[i].exchange = response.exchange
               /\ SameButCase(store[i].symbol, response.symbol)
               /\ store[i].timestamp >= now - HistoryWindow)
                  => \E k \in 1..Len(response.body) :
                        /\ response.body[k].symbol = store[i].symbol
                        /\ response.body[k].rate = store[i].rate
                        /\ response.body[k].timestamp.text = store[i].timestamp

=============================================================================
